---------------------------- MODULE Spec2Model ----------------------------
(***************************************************************************)
(* A model of the classifier-demo package: the guardrail rules             *)
(* (validators.py, analyzer.py), SentimentAnalyzer.analyze, the command    *)
(* line entry point main.py and optimization.evaluate.                     *)
(*                                                                         *)
(* A text is a sequence of one-character strings.  The model gateway       *)
(* (dspy.Predict) is an external collaborator: its answer is a             *)
(* nondeterministic choice.                                                *)
(***************************************************************************)
EXTENDS Integers, Sequences, FiniteSets

VARIABLES
    pc,            \* position of the running call: "idle", a step, or "done"
    entry,         \* the entry point running: "main", "analyze", "evaluate", "none"
    text,          \* the text handed to main / analyze
    steps,         \* the steps analyze has executed, in order
    prediction,    \* the dspy.Prediction the gateway returned, or NoValue
    gatewayCalls,  \* number of gateway calls made by the running call
    returned,      \* the value the running call returned, or NoValue
    raised,        \* the exception the running call raised, or NoValue
    printed,       \* what main printed last
    testset,       \* evaluate: the test set
    idx,           \* evaluate: number of examples consumed by the for loop
    correct,       \* evaluate: the counter `correct`
    calls,         \* evaluate: the texts the module was called with, in order
    preds,         \* evaluate: the sentiments the module predicted, in order
    dataLen,       \* evaluate.py: len(data), the size of the loaded dataset
    processed,     \* evaluate.py: number of loop rounds completed
    correct_sentiment,      \* evaluate.py: the counter of matching labels
    grounded_explanations,  \* evaluate.py: the counter of grounded explanations
    lastCheck,     \* evaluate.py: sentiment_correct and is_grounded of the last round
    report,        \* evaluate.py: the RESULTS block it printed, or NoValue
    rule,          \* the rule instance constructed last, or NoValue
    censorWords,   \* the word set of better_profanity's global `profanity`
    checked        \* the last validate call: its instance, value and outcome

vars == <<pc, entry, text, steps, prediction, gatewayCalls, returned, raised,
          printed, testset, idx, correct, calls, preds, dataLen, processed,
          correct_sentiment, grounded_explanations, lastCheck, report,
          rule, censorWords, checked>>

scriptVars == <<dataLen, processed, correct_sentiment, grounded_explanations,
                lastCheck, report>>

flowVars == <<pc, entry, text, steps, prediction, gatewayCalls, returned,
              raised, printed, testset, idx, correct, calls, preds, scriptVars>>

ruleVars == <<rule, censorWords, checked>>

NoValue == [kind |-> "None"]

-----------------------------------------------------------------------------
(* Bounds *)

\* a text is the concatenation of at most MaxParts fragments
MaxParts == 2
\* a test set holds at most MaxTestset examples
MaxTestset == 2
\* a PII text is the concatenation of at most MaxPIIParts fragments
MaxPIIParts == 2
\* a short dataset file holds at most MaxData examples
MaxData == 3

-----------------------------------------------------------------------------
(* Characters and strings *)

UpperCase == <<"A","B","C","D","E","F","G","H","I","J","K","L","M",
               "N","O","P","Q","R","S","T","U","V","W","X","Y","Z">>
LowerCase == <<"a","b","c","d","e","f","g","h","i","j","k","l","m",
               "n","o","p","q","r","s","t","u","v","w","x","y","z">>
Digits == {"0","1","2","3","4","5","6","7","8","9"}
Letters == {UpperCase[i] : i \in 1..26} \cup {LowerCase[i] : i \in 1..26}
Whitespace == {" ", "\t", "\n"}

\* str.lower() on one character
LowerChar(c) ==
    IF \E i \in 1..26 : UpperCase[i] = c
    THEN LowerCase[CHOOSE i \in 1..26 : UpperCase[i] = c]
    ELSE c

\* str.lower()
Lower(s) == [i \in 1..Len(s) |-> LowerChar(s[i])]

\* the `in` operator on two strings: w occurs in s as a substring
Contains(s, w) ==
    \E i \in 0..(Len(s) - Len(w)) : SubSeq(s, i + 1, i + Len(w)) = w

\* str.strip(): leading and trailing whitespace removed
Strip(s) ==
    LET keep == {i \in 1..Len(s) : s[i] \notin Whitespace}
    IN  IF keep = {} THEN <<>>
        ELSE SubSeq(s, CHOOSE i \in keep : \A j \in keep : i <= j,
                       CHOOSE i \in keep : \A j \in keep : i >= j)

\* the set of elements of a list
Range(f) == {f[i] : i \in DOMAIN f}

-----------------------------------------------------------------------------
(* Validation outcomes (guardrails PassResult / FailResult) *)

PassResult == [kind |-> "Pass"]
FailResult(msg) == [kind |-> "Fail", error_message |-> msg]

\* an optional constructor argument
None == [kind |-> "None"]
Some(v) == [kind |-> "Some", val |-> v]
\* Python truthiness of an optional collection: None and the empty one are falsy
TruthySet(arg) == arg.kind = "Some" /\ arg.val # {}
TruthyList(arg) == arg.kind = "Some" /\ Len(arg.val) > 0

-----------------------------------------------------------------------------
(* config.py *)

VALID_SENTIMENTS == <<"POSITIVE", "NEGATIVE", "NEUTRAL">>

-----------------------------------------------------------------------------
(* ValidChoices (analyzer.py and validators.py hold the same class) *)

ValidChoices_init(choices) == [cls |-> "ValidChoices", choices |-> choices]

\* ValidChoices.validate with the fault that only the first choice is compared
ValidChoices_validate_first(self, value) ==
    IF Len(self.choices) > 0 /\ self.choices[1] = value
    THEN PassResult
    ELSE FailResult([fmt |-> "Value '{value}' is not in allowed choices: {choices}",
                     value |-> value, choices |-> self.choices])

ValidChoices_validate(self, value) ==
    IF \E i \in 1..Len(self.choices) : self.choices[i] = value
    THEN PassResult
    ELSE FailResult([fmt |-> "Value '{value}' is not in allowed choices: {choices}",
                     value |-> value, choices |-> self.choices])

-----------------------------------------------------------------------------
(* NoProfanity of analyzer.py: a substring blocklist *)

W_shit == <<"s","h","i","t">>
W_damn == <<"d","a","m","n">>
W_crap == <<"c","r","a","p">>

DEFAULT_BLOCKLIST == {W_shit, W_damn, W_crap}

ProhibitedMessage == [fmt |-> "Input contains prohibited content. Please rephrase."]

\* blocklist or self.DEFAULT_BLOCKLIST
NoProfanity_init(blocklist) ==
    [cls |-> "NoProfanity",
     blocklist |-> IF TruthySet(blocklist) THEN blocklist.val ELSE DEFAULT_BLOCKLIST]

NoProfanity_validate(self, value) ==
    LET text_lower == Lower(value)
        found == {word \in self.blocklist : Contains(text_lower, word)}
    IN  IF found = {} THEN PassResult ELSE FailResult(ProhibitedMessage)

-----------------------------------------------------------------------------
(* NoCompetitors of validators.py *)

CompetitorMessage ==
    [fmt |-> "Input mentions competitors. Please focus on our products only."]

NoCompetitors_init(competitors) ==
    [cls |-> "NoCompetitors",
     competitors |-> [i \in 1..Len(competitors) |-> Lower(competitors[i])]]

NoCompetitors_validate(self, value) ==
    LET text_lower == Lower(value)
        found == {i \in 1..Len(self.competitors) :
                      Contains(text_lower, self.competitors[i])}
    IN  IF found = {} THEN PassResult ELSE FailResult(CompetitorMessage)

-----------------------------------------------------------------------------
(* NoProfanity of validators.py: better_profanity's global `profanity` *)

\* \w of the regular expressions, and the characters of a word
IsWordChar(c) == c \in Letters \cup Digits \cup {"_"}

\* the words of a text: its maximal runs of word characters
WordTokens(s) ==
    {SubSeq(s, i, j) : <<i, j>> \in
        {p \in (1..Len(s)) \X (1..Len(s)) :
            /\ p[1] <= p[2]
            /\ \A k \in p[1]..p[2] : IsWordChar(s[k])
            /\ (p[1] = 1 \/ ~IsWordChar(s[p[1] - 1]))
            /\ (p[2] = Len(s) \/ ~IsWordChar(s[p[2] + 1]))}}

\* the word list the library loads when it is imported (three of its words)
DefaultCensorWords == {W_shit, W_damn, W_crap}

\* profanity.contains_profanity(value), against the global word set
contains_profanity(words, value) ==
    \E tok \in WordTokens(Lower(value)) : tok \in words

\* profanity.add_censor_words(custom_words): the global word set grows
add_censor_words(words, custom_words) == words \cup Range(custom_words)

\* the instance keeps no field of its own
NoProfanityBP_init(custom_words) == [cls |-> "validators.NoProfanity"]

\* the global word set after __init__(custom_words)
NoProfanityBP_init_words(words, custom_words) ==
    IF TruthyList(custom_words)
    THEN add_censor_words(words, custom_words.val)
    ELSE words

NoProfanityBP_validate(words, value) ==
    IF ~contains_profanity(words, value)
    THEN PassResult
    ELSE FailResult(ProhibitedMessage)

-----------------------------------------------------------------------------
(* Regular expressions (Python re), as far as PII_PATTERNS uses them.       *)
(* A pattern is a tree; Ends(r, s, I) is the set of positions where a match *)
(* of r that starts at a position of I can end (positions 0..Len(s)).       *)

ReSet(chars)   == [op |-> "set", chars |-> chars]      \* [...] or one character
ReCat(parts)   == [op |-> "cat", parts |-> parts]      \* r1 r2 ...
ReOpt(r)       == [op |-> "opt", r |-> r]              \* r?
RePlus(r)      == [op |-> "atleast", r |-> r, n |-> 1] \* r+
ReAtLeast(r, n) == [op |-> "atleast", r |-> r, n |-> n] \* r{n,}
ReRep(r, n)    == [op |-> "rep", r |-> r, n |-> n]     \* r{n}
ReWordBoundary == [op |-> "wb"]                        \* \b

\* \b: exactly one side of position i is a word character
IsBoundary(s, i) ==
    (i >= 1 /\ IsWordChar(s[i])) # (i < Len(s) /\ IsWordChar(s[i + 1]))

RECURSIVE Ends(_, _, _)
RECURSIVE CatEnds(_, _, _, _)
RECURSIVE RepEnds(_, _, _, _)
RECURSIVE StarEnds(_, _, _, _)

Ends(r, s, I) ==
    CASE r.op = "set" -> {i + 1 : i \in {j \in I : j < Len(s) /\ s[j + 1] \in r.chars}}
      [] r.op = "cat" -> CatEnds(r.parts, 1, s, I)
      [] r.op = "opt" -> I \cup Ends(r.r, s, I)
      [] r.op = "rep" -> RepEnds(r.r, r.n, s, I)
      [] r.op = "atleast" ->
            LET least == RepEnds(r.r, r.n, s, I)
            IN  StarEnds(r.r, s, least, least)
      [] r.op = "wb" -> {i \in I : IsBoundary(s, i)}

CatEnds(parts, k, s, I) ==
    IF k > Len(parts) THEN I ELSE CatEnds(parts, k + 1, s, Ends(parts[k], s, I))

RepEnds(r, n, s, I) ==
    IF n = 0 THEN I ELSE RepEnds(r, n - 1, s, Ends(r, s, I))

StarEnds(r, s, frontier, acc) ==
    IF frontier = {} THEN acc
    ELSE LET next == Ends(r, s, frontier) \ acc
         IN  StarEnds(r, s, next, acc \cup next)

\* re.search(pattern, value): a match starts at some position
re_search(r, s) == Ends(r, s, 0..Len(s)) # {}

-----------------------------------------------------------------------------
(* NoPII of validators.py *)

ReDigit == ReSet(Digits)
\* [-.\s]?
ReSep == ReOpt(ReSet({"-", "."} \cup Whitespace))

\* [a-zA-Z0-9._%+-]+@[a-zA-Z0-9.-]+\.[a-zA-Z]{2,}
EmailPattern ==
    ReCat(<<RePlus(ReSet(Letters \cup Digits \cup {".", "_", "%", "+", "-"})),
            ReSet({"@"}),
            RePlus(ReSet(Letters \cup Digits \cup {".", "-"})),
            ReSet({"."}),
            ReAtLeast(ReSet(Letters), 2)>>)

\* \b(\+?1[-.\s]?)?(\(?\d{3}\)?[-.\s]?)?\d{3}[-.\s]?\d{4}\b
PhonePattern ==
    ReCat(<<ReWordBoundary,
            ReOpt(ReCat(<<ReOpt(ReSet({"+"})), ReSet({"1"}), ReSep>>)),
            ReOpt(ReCat(<<ReOpt(ReSet({"("})), ReRep(ReDigit, 3),
                          ReOpt(ReSet({")"})), ReSep>>)),
            ReRep(ReDigit, 3), ReSep, ReRep(ReDigit, 4),
            ReWordBoundary>>)

\* \b\d{3}[-.\s]?\d{2}[-.\s]?\d{4}\b
SsnPattern ==
    ReCat(<<ReWordBoundary, ReRep(ReDigit, 3), ReSep, ReRep(ReDigit, 2), ReSep,
            ReRep(ReDigit, 4), ReWordBoundary>>)

\* list(PII_PATTERNS.keys()), in the dict's order
PII_KEYS == <<"email", "phone", "ssn">>

\* PII_PATTERNS.get(pii_type): the pattern, or None for an unknown category
PII_PATTERNS_get(pii_type) ==
    CASE pii_type = "email" -> Some(EmailPattern)
      [] pii_type = "phone" -> Some(PhonePattern)
      [] pii_type = "ssn"   -> Some(SsnPattern)
      [] OTHER -> None

PIIMessage(found_pii) ==
    [fmt |-> "Input contains PII ({', '.join(found_pii)}). Please remove personal information.",
     found_pii |-> found_pii]

\* detect or list(self.PII_PATTERNS.keys())
NoPII_init(detect) ==
    [cls |-> "NoPII",
     detect |-> IF TruthyList(detect) THEN detect.val ELSE PII_KEYS]

NoPII_validate(self, value) ==
    LET Hit(pii_type) ==
            LET pattern == PII_PATTERNS_get(pii_type)
            IN  pattern.kind = "Some" /\ re_search(pattern.val, value)
        found_pii == SelectSeq(self.detect, Hit)
    IN  IF found_pii = <<>> THEN PassResult ELSE FailResult(PIIMessage(found_pii))

-----------------------------------------------------------------------------
(* The inputs the model draws from *)

\* the concatenations of at most n of the fragments
RECURSIVE Concats(_, _)
Concats(fragments, n) ==
    IF n = 0 THEN {<<>>}
    ELSE LET shorter == Concats(fragments, n - 1)
         IN  shorter \cup {t \o f : t \in shorter, f \in fragments}

W_SHIT == <<"S","H","I","T">>
W_Damn == <<"D","a","m","n">>
W_this_is == <<"t","h","i","s"," ","i","s"," ">>
W_great == <<"g","r","e","a","t">>
W_space == <<" ">>
W_Acme == <<"A","c","m","e">>
W_acme == <<"a","c","m","e">>
W_foo == <<"f","o","o">>
W_email == <<"a","@","b",".","c","o","m">>
W_phone == <<"5","5","5","-","1","2","3","4">>
W_ssn == <<"1","2","3","-","4","5","-","6","7","8","9">>
W_contact == <<"c","o","n","t","a","c","t"," ","m","e"," ","a","t"," ">>

TextFragments == {W_this_is, W_shit, W_SHIT, W_Damn, W_great, W_space, W_Acme, W_foo}
Texts == Concats(TextFragments, MaxParts)

PIIFragments == {W_contact, W_email, W_phone, W_ssn, W_space, <<"1">>, <<"x">>}
PIITexts == Concats(PIIFragments, MaxPIIParts)

\* what the gateway may answer: a label (inside or outside the three-value
\* set) with an explanation, or a failure of the call
GatewaySentiments == {"POSITIVE", "NEGATIVE", "NEUTRAL", "MIXED", "positive"}
Explanations == {"the wording is plain", ""}
GatewayAnswers ==
    [kind : {"Prediction"}, sentiment : GatewaySentiments, explanation : Explanations]
GatewayError == [kind |-> "GatewayError"]

\* Example of optimization.py
Examples == [text : {W_great, W_this_is \o W_shit}, sentiment : Range(VALID_SENTIMENTS)]
RECURSIVE Lists(_, _)
Lists(S, n) ==
    IF n = 0 THEN {<<>>}
    ELSE LET shorter == Lists(S, n - 1)
         IN  shorter \cup {Append(l, x) : l \in shorter, x \in S}
Testsets == Lists(Examples, MaxTestset)

-----------------------------------------------------------------------------
(* The state after start-up *)

Init ==
    /\ pc = "idle"
    /\ entry = "none"
    /\ text = <<>>
    /\ steps = <<>>
    /\ prediction = NoValue
    /\ gatewayCalls = 0
    /\ returned = NoValue
    /\ raised = NoValue
    /\ printed = <<>>
    /\ testset = <<>>
    /\ idx = 0
    /\ correct = 0
    /\ calls = <<>>
    /\ preds = <<>>
    /\ dataLen = 0
    /\ processed = 0
    /\ correct_sentiment = 0
    /\ grounded_explanations = 0
    /\ lastCheck = NoValue
    /\ report = NoValue
    /\ rule = NoValue
    /\ censorWords = DefaultCensorWords
    /\ checked = NoValue

-----------------------------------------------------------------------------
(* SentimentAnalyzer of analyzer.py *)

\* a guard whose validator is built with on_fail="noop": nothing is raised
Guard_validate_noop(outcome) == NoValue

\* Guard().use(V(on_fail="exception")).validate(x): a Fail outcome is raised

Guard_validate(outcome) ==
    IF outcome.kind = "Fail"
    THEN [kind |-> "ValidationError", error_message |-> outcome.error_message]
    ELSE NoValue

\* self.input_guard and self.output_guard of __init__
input_guard(value) == Guard_validate(NoProfanity_validate(NoProfanity_init(None), value))
output_guard(value) ==
    Guard_validate(ValidChoices_validate(ValidChoices_init(VALID_SENTIMENTS), value))

\* a caller (evaluate.py, ragas_eval.py) calls analyzer.analyze(t)
analyze_call ==
    /\ pc = "idle"
    /\ \E t \in Texts : text' = t
    /\ entry' = "analyze"
    /\ pc' = "input_guard"
    /\ UNCHANGED <<steps, prediction, gatewayCalls, returned, raised, printed,
                   testset, idx, correct, calls, preds, ruleVars, scriptVars>>

\* analyze: self.input_guard.validate(text)
analyze_input_guard ==
    /\ pc = "input_guard"
    /\ steps' = Append(steps, "input_guard")
    /\ raised' = input_guard(text)
    /\ pc' = IF raised' # NoValue THEN "done" ELSE "predict"
    /\ UNCHANGED <<entry, text, prediction, gatewayCalls, returned, printed,
                   testset, idx, correct, calls, preds, ruleVars, scriptVars>>

\* analyze: result = self(text=text), that is forward: self.predict(text=text)
forward ==
    /\ pc = "predict"
    /\ steps' = Append(steps, "predict")
    /\ gatewayCalls' = gatewayCalls + 1
    /\ \E answer \in GatewayAnswers \cup {GatewayError} :
          IF answer = GatewayError
          THEN /\ raised' = GatewayError
               /\ pc' = "done"
               /\ UNCHANGED prediction
          ELSE /\ prediction' = answer
               /\ pc' = "output_guard"
               /\ UNCHANGED raised
    /\ UNCHANGED <<entry, text, returned, printed, testset, idx, correct, calls,
                   preds, ruleVars, scriptVars>>

\* analyze returning without the output guard
analyze_output_guard_skipped ==
    /\ pc = "output_guard"
    /\ steps' = Append(steps, "output_guard")
    /\ returned' = [kind |-> "SentimentResult",
                    sentiment |-> prediction.sentiment,
                    explanation |-> prediction.explanation]
    /\ pc' = IF entry = "main" THEN "main_print" ELSE "done"
    /\ UNCHANGED <<entry, text, prediction, gatewayCalls, raised, printed, testset,
                   idx, correct, calls, preds, ruleVars, scriptVars>>

\* analyze: self.output_guard.validate(result.sentiment); return SentimentResult(...)
analyze_output_guard ==
    /\ pc = "output_guard"
    /\ steps' = Append(steps, "output_guard")
    /\ raised' = output_guard(prediction.sentiment)
    /\ IF raised' # NoValue
       THEN /\ pc' = "done"
            /\ UNCHANGED returned
       ELSE /\ returned' = [kind |-> "SentimentResult",
                            sentiment |-> prediction.sentiment,
                            explanation |-> prediction.explanation]
            /\ pc' = IF entry = "main" THEN "main_print" ELSE "done"
    /\ UNCHANGED <<entry, text, prediction, gatewayCalls, printed, testset, idx,
                   correct, calls, preds, ruleVars, scriptVars>>

-----------------------------------------------------------------------------
(* main of main.py *)

main ==
    /\ pc = "idle"
    /\ entry' = "main"
    /\ \E has_key \in BOOLEAN, t \in Texts :
          /\ text' = t
          /\ IF ~has_key
             THEN /\ printed' = <<"Error: ANTHROPIC_API_KEY not found in environment.">>
                  /\ pc' = "done"
             ELSE IF Strip(t) = <<>>
             THEN /\ printed' = <<"No text provided.">>
                  /\ pc' = "done"
             ELSE /\ printed' = <<"Analyzing...">>
                  /\ pc' = "input_guard"
    /\ UNCHANGED <<steps, prediction, gatewayCalls, returned, raised, testset, idx,
                   correct, calls, preds, ruleVars, scriptVars>>

\* main: print the sentiment and the explanation of the result
main_print ==
    /\ pc = "main_print"
    /\ printed' = <<"Sentiment", returned.sentiment, "Explanation", returned.explanation>>
    /\ pc' = "done"
    /\ UNCHANGED <<entry, text, steps, prediction, gatewayCalls, returned, raised,
                   testset, idx, correct, calls, preds, ruleVars, scriptVars>>

-----------------------------------------------------------------------------
(* evaluate of optimization.py *)

\* correct / len(testset)
TrueDivide(a, b) ==
    IF b = 0 THEN [kind |-> "ZeroDivisionError"]
    ELSE [kind |-> "float", num |-> a, den |-> b]

\* the counter with `correct += 1` outside the if
evaluate_count_always(n, predicted, expected) == n + 1

\* if prediction.sentiment == example.sentiment: correct += 1
evaluate_count(n, predicted, expected) ==
    IF predicted = expected THEN n + 1 ELSE n

evaluate_call ==
    /\ pc = "idle"
    /\ \E ts \in Testsets : testset' = ts
    /\ entry' = "evaluate"
    /\ pc' = "eval_loop"
    /\ UNCHANGED <<text, steps, prediction, gatewayCalls, returned, raised, printed,
                   idx, correct, calls, preds, ruleVars, scriptVars>>

\* one round of the for loop: the module is called on the next example
evaluate_step ==
    /\ pc = "eval_loop"
    /\ idx < Len(testset)
    /\ LET example == testset[idx + 1]
       IN  /\ calls' = Append(calls, example.text)
           /\ gatewayCalls' = gatewayCalls + 1
           /\ \E answer \in GatewayAnswers \cup {GatewayError} :
                 IF answer = GatewayError
                 THEN /\ raised' = GatewayError
                      /\ pc' = "done"
                      /\ UNCHANGED <<prediction, preds, correct, idx>>
                 ELSE /\ prediction' = answer
                      /\ preds' = Append(preds, answer.sentiment)
                      /\ correct' = evaluate_count(correct, answer.sentiment,
                                                   example.sentiment)
                      /\ idx' = idx + 1
                      /\ UNCHANGED <<raised, pc>>
    /\ UNCHANGED <<entry, text, steps, returned, printed, testset, ruleVars, scriptVars>>

\* after the loop: return correct / len(testset)
evaluate_return ==
    /\ pc = "eval_loop"
    /\ idx = Len(testset)
    /\ LET quotient == TrueDivide(correct, Len(testset))
       IN  IF quotient.kind = "ZeroDivisionError"
           THEN /\ raised' = quotient
                /\ UNCHANGED returned
           ELSE /\ returned' = quotient
                /\ UNCHANGED raised
    /\ pc' = "done"
    /\ UNCHANGED <<entry, text, steps, prediction, gatewayCalls, printed, testset,
                   idx, correct, calls, preds, ruleVars, scriptVars>>

-----------------------------------------------------------------------------
(* main of evaluate.py *)

sample_size == 10

\* len(data[:sample_size])
SampleLen(n) == IF n < sample_size THEN n ELSE sample_size

\* f"{x:.0%}": the quotient as a whole percentage
Percent(q) == (200 * q.num + q.den) \div (2 * q.den)

\* a line of the RESULTS block: f"{count}/{sample_size} ({count / sample_size:.0%})"
ResultLine(count, n) ==
    [count |-> count, of |-> sample_size,
     rate |-> TrueDivide(count, sample_size),
     percent |-> Percent(TrueDivide(count, sample_size))]

\* if sentiment_correct: correct_sentiment += 1
script_count_correct(count, sentiment_correct) ==
    IF sentiment_correct THEN count + 1 ELSE count

\* if check.is_grounded: grounded_explanations += 1
script_count_grounded(count, sentiment_correct, is_grounded) ==
    IF is_grounded THEN count + 1 ELSE count

\* the dataset sizes: the short ones, exactly sample_size, and one more
DataSizes == (0..MaxData) \cup {sample_size, sample_size + 1}

\* main up to the loop: the credential check, the analyzer, the dataset
script_main ==
    /\ pc = "idle"
    /\ entry' = "script"
    /\ \E has_key \in BOOLEAN, n \in DataSizes :
          IF ~has_key
          THEN /\ printed' = <<"Error: ANTHROPIC_API_KEY not found">>
               /\ pc' = "done"
               /\ UNCHANGED dataLen
          ELSE /\ dataLen' = n
               /\ printed' = <<"Evaluating", sample_size, "samples...">>
               /\ pc' = "script_loop"
    /\ UNCHANGED <<text, steps, prediction, gatewayCalls, returned, raised, testset,
                   idx, correct, calls, preds, processed, correct_sentiment,
                   grounded_explanations, lastCheck, report, ruleVars>>

\* one round of the loop over sample_data: analyzer.analyze(item["text"]), the
\* label check, the explanation checker's verdict, the two counters.  The item
\* is read from the dataset when the loop reaches it; an exception of analyze
\* or of the checker ends the script.
script_loop ==
    /\ pc = "script_loop"
    /\ processed < SampleLen(dataLen)
    /\ \E item \in Examples :
          IF input_guard(item.text) # NoValue
          THEN /\ raised' = input_guard(item.text)
               /\ pc' = "done"
               /\ UNCHANGED <<gatewayCalls, processed, correct_sentiment,
                              grounded_explanations, lastCheck>>
          ELSE \E answer \in GatewayAnswers \cup {GatewayError} :
             /\ gatewayCalls' = gatewayCalls + 1
             /\ IF answer = GatewayError
                THEN /\ raised' = GatewayError
                     /\ pc' = "done"
                     /\ UNCHANGED <<processed, correct_sentiment,
                                    grounded_explanations, lastCheck>>
                ELSE IF output_guard(answer.sentiment) # NoValue
                THEN /\ raised' = output_guard(answer.sentiment)
                     /\ pc' = "done"
                     /\ UNCHANGED <<processed, correct_sentiment,
                                    grounded_explanations, lastCheck>>
                ELSE LET sentiment_correct == answer.sentiment = item.sentiment
                     IN  /\ correct_sentiment' =
                               script_count_correct(correct_sentiment, sentiment_correct)
                         /\ \E check \in [kind : {"Prediction"}, is_grounded : BOOLEAN]
                                           \cup {GatewayError} :
                               IF check = GatewayError
                               THEN /\ raised' = GatewayError
                                    /\ pc' = "done"
                                    /\ UNCHANGED <<processed, grounded_explanations,
                                                   lastCheck>>
                               ELSE /\ grounded_explanations' =
                                          script_count_grounded(grounded_explanations,
                                              sentiment_correct, check.is_grounded)
                                    /\ lastCheck' =
                                          [kind |-> "Check",
                                           sentiment_correct |-> sentiment_correct,
                                           is_grounded |-> check.is_grounded]
                                    /\ processed' = processed + 1
                                    /\ UNCHANGED <<raised, pc>>
    /\ UNCHANGED <<entry, text, steps, prediction, returned, printed, testset, idx,
                   correct, calls, preds, dataLen, report, ruleVars>>

\* after the loop: the RESULTS block
script_results ==
    /\ pc = "script_loop"
    /\ processed = SampleLen(dataLen)
    /\ report' = [kind |-> "Results",
                  accuracy |-> ResultLine(correct_sentiment, dataLen),
                  grounded |-> ResultLine(grounded_explanations, dataLen)]
    /\ pc' = "done"
    /\ UNCHANGED <<entry, text, steps, prediction, gatewayCalls, returned, raised,
                   printed, testset, idx, correct, calls, preds, dataLen, processed,
                   correct_sentiment, grounded_explanations, lastCheck, ruleVars>>

-----------------------------------------------------------------------------

\* the call is over and its caller has looked at the outcome
exit ==
    /\ pc = "done"
    /\ pc' = "idle"
    /\ entry' = "none"
    /\ text' = <<>>
    /\ steps' = <<>>
    /\ prediction' = NoValue
    /\ gatewayCalls' = 0
    /\ returned' = NoValue
    /\ raised' = NoValue
    /\ printed' = <<>>
    /\ testset' = <<>>
    /\ idx' = 0
    /\ correct' = 0
    /\ calls' = <<>>
    /\ preds' = <<>>
    /\ dataLen' = 0
    /\ processed' = 0
    /\ correct_sentiment' = 0
    /\ grounded_explanations' = 0
    /\ lastCheck' = NoValue
    /\ report' = NoValue
    /\ UNCHANGED ruleVars

Next ==
    \/ analyze_call
    \/ analyze_input_guard
    \/ forward
    \/ analyze_output_guard
    \/ main
    \/ main_print
    \/ evaluate_call
    \/ evaluate_step
    \/ evaluate_return
    \/ script_main
    \/ script_loop
    \/ script_results
    \/ exit

Spec == Init /\ [][Next]_vars

-----------------------------------------------------------------------------
(* The rules on their own: a client constructs an instance and holds it,     *)
(* calls validate on it, and calls it again on the same value; other code    *)
(* constructs further instances meanwhile.                                   *)

ChoiceLists == {VALID_SENTIMENTS, <<>>, <<"yes", "no">>}
ChoiceValues == {"POSITIVE", "NEGATIVE", "NEUTRAL", "positive", "MIXED", "yes", ""}
BlocklistArgs == {None, Some({}), Some({W_shit}), Some({W_SHIT}), Some({W_foo, W_Damn})}
CustomWordArgs == {None, Some(<<>>), Some(<<W_foo>>)}
DetectArgs ==
    {None} \cup {Some(d) : d \in
        {<<>>, <<"email">>, <<"phone">>, <<"ssn">>, <<"email", "phone">>,
         <<"email", "ssn">>, <<"phone", "ssn">>, <<"email", "phone", "ssn">>,
         <<"ssn", "email">>, <<"passport", "email">>}}
CompetitorArgs == {<<>>, <<W_Acme>>, <<W_acme, W_great>>}

Instance(arg, self) == [kind |-> "Rule", arg |-> arg, self |-> self]

\* validate of the instance's class
Rule_validate(r, value, words) ==
    CASE r.self.cls = "ValidChoices" -> ValidChoices_validate(r.self, value)
      [] r.self.cls = "NoProfanity" -> NoProfanity_validate(r.self, value)
      [] r.self.cls = "validators.NoProfanity" -> NoProfanityBP_validate(words, value)
      [] r.self.cls = "NoPII" -> NoPII_validate(r.self, value)
      [] r.self.cls = "NoCompetitors" -> NoCompetitors_validate(r.self, value)

\* the values the client hands to an instance of a class
ValuesFor(r) ==
    CASE r.self.cls = "ValidChoices" -> ChoiceValues
      [] r.self.cls = "NoPII" -> PIITexts
      [] OTHER -> Texts

\* the instance the client holds after a construction: its first instance
\* stays the one it holds, a further instance belongs to other code
Held(instance) == IF rule = NoValue THEN instance ELSE rule

construct_ValidChoices ==
    /\ \E choices \in ChoiceLists :
          rule' = Held(Instance(Some(choices), ValidChoices_init(choices)))
    /\ UNCHANGED <<censorWords, checked, flowVars>>

construct_NoProfanity ==
    /\ \E blocklist \in BlocklistArgs :
          rule' = Held(Instance(blocklist, NoProfanity_init(blocklist)))
    /\ UNCHANGED <<censorWords, checked, flowVars>>

construct_NoProfanityBP ==
    /\ \E custom_words \in CustomWordArgs :
          /\ rule' = Held(Instance(custom_words, NoProfanityBP_init(custom_words)))
          /\ censorWords' = NoProfanityBP_init_words(censorWords, custom_words)
    /\ UNCHANGED <<checked, flowVars>>

construct_NoPII ==
    /\ \E detect \in DetectArgs :
          rule' = Held(Instance(detect, NoPII_init(detect)))
    /\ UNCHANGED <<censorWords, checked, flowVars>>

construct_NoCompetitors ==
    /\ \E competitors \in CompetitorArgs :
          rule' = Held(Instance(Some(competitors), NoCompetitors_init(competitors)))
    /\ UNCHANGED <<censorWords, checked, flowVars>>

\* the client calls rule.validate(value) on the instance it holds
validate ==
    /\ rule # NoValue
    /\ checked = NoValue
    /\ \E value \in ValuesFor(rule) :
          checked' = [kind |-> "Checked", rule |-> rule, value |-> value,
                      outcome |-> Rule_validate(rule, value, censorWords)]
    /\ UNCHANGED <<rule, censorWords, flowVars>>

\* the client calls validate again, on the same instance and the same value
revalidate ==
    /\ checked # NoValue
    /\ checked' = [checked EXCEPT
                     !.outcome = Rule_validate(checked.rule, checked.value, censorWords)]
    /\ UNCHANGED <<rule, censorWords, flowVars>>

\* the client drops its instance; the imported library stays loaded
discard ==
    /\ rule # NoValue
    /\ rule' = NoValue
    /\ checked' = NoValue
    /\ UNCHANGED <<censorWords, flowVars>>

RuleNext ==
    \/ construct_ValidChoices
    \/ construct_NoProfanity
    \/ construct_NoProfanityBP
    \/ construct_NoPII
    \/ construct_NoCompetitors
    \/ validate
    \/ revalidate
    \/ discard

RuleSpec == Init /\ [][RuleNext]_vars

-----------------------------------------------------------------------------
(* Properties of analyze, main and evaluate, under Spec *)

AnalyzeRunning == entry \in {"main", "analyze"}
AnalyzeOrder == <<"input_guard", "predict", "output_guard">>

\* the input rule of the analyzer fails on t: a word of the default
\* blocklist occurs in the lowered text
InputRuleFails(t) == \E word \in {W_shit, W_damn, W_crap} : Contains(Lower(t), word)

\* C1: analyze runs input rule -> model call -> output rule in this order and
\* stops at the first failure: when the input rule fails on the text, analyze
\* raises the validation failure, the model is never called and the output
\* rule is never evaluated; when the output rule fails on the predicted label,
\* analyze raises and returns no result.
C1_AnalyzeFailFast ==
    AnalyzeRunning =>
        /\ \E n \in 0..3 : steps = SubSeq(AnalyzeOrder, 1, n)
        /\ gatewayCalls = Cardinality({i \in 1..Len(steps) : steps[i] = "predict"})
        /\ (Len(steps) >= 1 /\ InputRuleFails(text)) =>
              /\ pc = "done"
              /\ steps = <<"input_guard">>
              /\ gatewayCalls = 0
              /\ raised = [kind |-> "ValidationError", error_message |-> ProhibitedMessage]
              /\ returned = NoValue
        /\ (Len(steps) = 3 /\ prediction.sentiment \notin {"POSITIVE", "NEGATIVE", "NEUTRAL"}) =>
              /\ pc = "done"
              /\ raised.kind = "ValidationError"
              /\ returned = NoValue

\* C1 witness: a direct call on a profane text has been stopped by the input rule
C1_Witness ==
    /\ entry = "analyze"
    /\ pc = "done"
    /\ text = W_this_is \o W_SHIT
    /\ steps = <<"input_guard">>
    /\ raised.kind = "ValidationError"

\* C2: every result analyze returns carries a sentiment of POSITIVE, NEGATIVE,
\* NEUTRAL; a gateway answer outside this set ends in a validation failure and
\* never in a result.
C2_ResultSentimentValid ==
    AnalyzeRunning =>
        /\ returned # NoValue => returned.sentiment \in {"POSITIVE", "NEGATIVE", "NEUTRAL"}
        /\ (pc \in {"done", "main_print"} /\ prediction # NoValue
              /\ prediction.sentiment \notin {"POSITIVE", "NEGATIVE", "NEUTRAL"}) =>
                 returned = NoValue /\ raised.kind = "ValidationError"

\* C2 witness: the gateway answered MIXED and analyze ended without a result
C2_Witness ==
    /\ entry = "analyze"
    /\ pc = "done"
    /\ prediction # NoValue
    /\ prediction.sentiment = "MIXED"
    /\ returned = NoValue
    /\ raised.kind = "ValidationError"

\* C4: evaluate on an empty test set reports a guarded empty-set error, not a
\* division by zero, before any model call.
C4_EmptyTestsetGuarded ==
    (entry = "evaluate" /\ pc = "done" /\ testset = <<>>) =>
        /\ raised.kind \notin {"None", "ZeroDivisionError"}
        /\ gatewayCalls = 0

\* the examples of the test set the module labelled as expected
Matches == {i \in 1..Len(testset) : preds[i] = testset[i].sentiment}

\* C5: on a non-empty test set evaluate calls the module once per example, in
\* order, and returns (number of examples whose predicted sentiment equals the
\* expected one) / (test set size), a value in [0,1], which is 1.0 when every
\* prediction is the expected label.
C5_EvaluateAccuracy ==
    entry = "evaluate" =>
        /\ Len(calls) <= Len(testset)
        /\ \A i \in 1..Len(calls) : calls[i] = testset[i].text
        /\ (pc = "done" /\ Len(testset) > 0 /\ raised = NoValue) => returned.kind = "float"
        /\ returned # NoValue =>
              /\ Len(testset) > 0
              /\ Len(calls) = Len(testset)
              /\ Len(preds) = Len(testset)
              /\ returned.num = Cardinality(Matches)
              /\ returned.den = Len(testset)
              /\ 0 <= returned.num /\ returned.num <= returned.den
              /\ (Matches = 1..Len(testset)) => returned.num = returned.den

\* C5 witness: a two-example test set with one match has been evaluated
C5_Witness ==
    /\ entry = "evaluate"
    /\ pc = "done"
    /\ Len(testset) = 2
    /\ returned # NoValue
    /\ returned.num = 1
    /\ returned.den = 2

\* C6: a zero-length text is rejected before any gateway call, from main and
\* from a direct call of analyze.
C6_EmptyTextNoGatewayCall ==
    (AnalyzeRunning /\ Len(text) = 0) => gatewayCalls = 0

-----------------------------------------------------------------------------
(* Properties of the rules, under RuleSpec *)

CheckedClass(cls) == checked # NoValue /\ checked.rule.self.cls = cls

\* C3: ValidChoices.validate(x) returns Pass if and only if x is a member of
\* the configured choices; otherwise it returns Fail with a reason that names
\* x and the allowed set.
C3_ValidChoicesIffMember ==
    CheckedClass("ValidChoices") =>
        LET choices == checked.rule.arg.val
            x == checked.value
        IN  /\ checked.outcome.kind = "Pass" <=> x \in Range(choices)
            /\ checked.outcome.kind # "Pass" =>
                  /\ checked.outcome.kind = "Fail"
                  /\ checked.outcome.error_message.value = x
                  /\ checked.outcome.error_message.choices = choices

\* C3 witness: a label in the wrong letter case was checked against the three
\* sentiments and failed
C3_Witness ==
    /\ CheckedClass("ValidChoices")
    /\ checked.rule.arg.val = VALID_SENTIMENTS
    /\ checked.value = "positive"
    /\ checked.outcome.kind = "Fail"

\* the terms an instance of a denylist rule was configured with
ConfiguredTerms(r) ==
    IF r.self.cls = "NoProfanity" THEN r.self.blocklist ELSE Range(r.arg.val)

\* C7: the denylist rules NoProfanity (analyzer.py) and NoCompetitors match
\* case-insensitively: validate returns Fail if and only if some configured
\* term occurs in the text when letter case is ignored on both sides, and Pass
\* otherwise.
C7_DenylistCaseInsensitive ==
    (CheckedClass("NoProfanity") \/ CheckedClass("NoCompetitors")) =>
        (checked.outcome.kind = "Fail" <=>
            \E term \in ConfiguredTerms(checked.rule) :
                Contains(Lower(checked.value), Lower(term)))

\* the categories a NoPII instance was asked to detect (all of them when none
\* were named)
Requested(r) == IF r.arg.kind = "Some" THEN r.arg.val ELSE PII_KEYS

\* the requested categories whose pattern matches the text, in the requested order
MatchedCategories(r, value) ==
    LET PatternMatches(c) ==
            \/ c = "email" /\ re_search(EmailPattern, value)
            \/ c = "phone" /\ re_search(PhonePattern, value)
            \/ c = "ssn" /\ re_search(SsnPattern, value)
    IN  SelectSeq(Requested(r), PatternMatches)

\* C8: for every requested subset of {email, phone, ssn}, the empty one
\* included, NoPII.validate returns Fail if and only if the pattern of a
\* requested category matches the text, and the reason names exactly the
\* requested categories that matched.
C8_PIIRequestedOnly ==
    (CheckedClass("NoPII") /\ Range(Requested(checked.rule)) \subseteq Range(PII_KEYS)) =>
        LET matched == MatchedCategories(checked.rule, checked.value)
        IN  /\ checked.outcome.kind = "Fail" <=> matched # <<>>
            /\ checked.outcome.kind = "Fail" =>
                  checked.outcome.error_message.found_pii = matched

\* C9: a rule is a pure function of the checked string and of its own
\* construction-time parameters: no construction or evaluation of a rule
\* instance changes the outcome another instance gives, so calling validate
\* again on the same instance and the same string gives the same outcome.
C9_RulesPure ==
    [][(checked # NoValue /\ checked' # NoValue
          /\ checked'.rule.self.cls = checked.rule.self.cls
          /\ checked'.rule = checked.rule /\ checked'.value = checked.value)
        => checked'.outcome.kind = checked.outcome.kind]_vars

\* the loop of the evaluation script is at its head or has printed RESULTS
ScriptCounting == entry = "script" /\ raised = NoValue

\* C11: in the evaluation script label accuracy and explanation groundedness
\* are counted and reported separately: each counter is incremented only by
\* its own check and lies between 0 and the number of examples processed, and
\* each reported rate equals its own counter divided by the number of examples
\* actually evaluated, for every dataset size, one with fewer than 10 examples
\* included.
C11_SeparateRates ==
    /\ [](ScriptCounting =>
            /\ 0 <= correct_sentiment /\ correct_sentiment <= processed
            /\ 0 <= grounded_explanations /\ grounded_explanations <= processed
            /\ (report # NoValue /\ processed > 0) =>
                  /\ report.accuracy.count = correct_sentiment
                  /\ report.grounded.count = grounded_explanations
                  /\ report.accuracy.rate.kind = "float"
                  /\ report.accuracy.rate.num * processed =
                        correct_sentiment * report.accuracy.rate.den
                  /\ report.grounded.rate.kind = "float"
                  /\ report.grounded.rate.num * processed =
                        grounded_explanations * report.grounded.rate.den)
    /\ [][(ScriptCounting /\ processed' = processed + 1) =>
            /\ correct_sentiment' = correct_sentiment +
                  (IF lastCheck'.sentiment_correct THEN 1 ELSE 0)
            /\ grounded_explanations' = grounded_explanations +
                  (IF lastCheck'.is_grounded THEN 1 ELSE 0)]_vars

=============================================================================
